---- MODULE Spec2Model ----
(***************************************************************************)
(* Model of task.py, the chat-log summarizer: parse_chat_log (regex        *)
(* segmentation of a transcript), message_statistics,                     *)
(* extract_keywords_and_topic (scikit-learn TfidfVectorizer /              *)
(* CountVectorizer over one document), generate_summary and                *)
(* summarize_all_chats (the directory loop).                               *)
(*                                                                         *)
(* A Python str is a sequence of characters; a character is a one-letter   *)
(* TLA+ string.  Rendered text (the f-strings) is a TLA+ string.           *)
(***************************************************************************)
EXTENDS Integers, Sequences, FiniteSets, TLC

VARIABLES
    pc,         \* position of the running call
    content,    \* parse_chat_log: the text read from the file
    chat_data,  \* parse_chat_log: {'User': [...], 'AI': [...]}
    texts,      \* extract_keywords_and_topic: its argument (generate_summary's `combined`)
    top_k,      \* extract_keywords_and_topic: its argument
    result,     \* extract_keywords_and_topic: what the call did (returned or raised)
    summary,    \* generate_summary: the returned string
    folder,     \* summarize_all_chats: the directory, entry name -> file content
    files,      \* summarize_all_chats: the sorted .txt entries
    idx,        \* summarize_all_chats: entries of `files` already processed
    output      \* summarize_all_chats: the sections appended so far

vars == <<pc, content, chat_data, texts, top_k, result, summary, folder, files, idx, output>>

(***************************************************************************)
(* Bounds of the model.                                                    *)
(***************************************************************************)
MaxPieces == 4      \* a transcript is at most this many pieces long
MaxTexts == 4       \* extract_keywords_and_topic gets at most this many texts
MaxK == 2           \* top_k ranges over 1..MaxK when the extraction is called on its
                    \* own (max_features must be a positive int)

(***************************************************************************)
(* Characters.  Python compares and sorts str by code point; AsciiOrder    *)
(* lists the characters of the model in code-point order.                  *)
(***************************************************************************)
UpperSeq == <<"A","B","C","D","E","F","G","H","I","J","K","L","M",
              "N","O","P","Q","R","S","T","U","V","W","X","Y","Z">>

LowerSeq == <<"a","b","c","d","e","f","g","h","i","j","k","l","m",
              "n","o","p","q","r","s","t","u","v","w","x","y","z">>

AsciiOrder == <<"\n", " ", "'", ".", "1", ":">> \o UpperSeq \o <<"_">> \o LowerSeq

Range(s) == {s[i] : i \in 1..Len(s)}

Upper == Range(UpperSeq)

Letters == Range(UpperSeq) \cup Range(LowerSeq)

Digits == {"1"}

Whitespace == {" ", "\n"}

Chars == Range(AsciiOrder)

Ord == [c \in Chars |-> CHOOSE i \in 1..Len(AsciiOrder) : AsciiOrder[i] = c]

ToLowerChar == [c \in Chars |->
    IF c \in Upper THEN LowerSeq[CHOOSE i \in 1..26 : UpperSeq[i] = c] ELSE c]

\* str.lower()
Lower(s) == [i \in 1..Len(s) |-> ToLowerChar[s[i]]]

\* Python's str < str: the first differing character decides, a proper prefix is smaller
RECURSIVE StrLess(_, _)
StrLess(a, b) ==
    IF b = <<>> THEN FALSE
    ELSE IF a = <<>> THEN TRUE
    ELSE IF Head(a) # Head(b) THEN Ord[Head(a)] < Ord[Head(b)]
    ELSE StrLess(Tail(a), Tail(b))

\* sorted(S) for a set of strings
RECURSIVE Sorted(_)
Sorted(S) ==
    IF S = {} THEN <<>>
    ELSE LET m == CHOOSE x \in S : \A y \in S \ {x} : StrLess(x, y)
         IN <<m>> \o Sorted(S \ {m})

\* sep.join(parts)
RECURSIVE Join(_, _)
Join(sep, parts) ==
    IF parts = <<>> THEN <<>>
    ELSE IF Len(parts) = 1 THEN parts[1]
    ELSE parts[1] \o sep \o Join(sep, Tail(parts))

\* s.startswith(lit, i) for the 1-based position i
StartsWithAt(s, i, lit) ==
    /\ i + Len(lit) - 1 <= Len(s)
    /\ \A k \in 1..Len(lit) : s[i + k - 1] = lit[k]

\* a str as rendered inside an f-string
RECURSIVE Str(_)
Str(s) == IF s = <<>> THEN "" ELSE Head(s) \o Str(Tail(s))

\* f"{n}" for an int n >= 0
DigitStr == <<"0","1","2","3","4","5","6","7","8","9">>

RECURSIVE IntStr(_)
IntStr(n) == IF n < 10 THEN DigitStr[n + 1] ELSE IntStr(n \div 10) \o DigitStr[(n % 10) + 1]

(***************************************************************************)
(* parse_chat_log                                                          *)
(***************************************************************************)
UserTag == <<"U","s","e","r",":">>

AITag == <<"A","I",":">>

\* (User:|AI:) tried at position i: the tag matched, or <<>>
TagAt(s, i) ==
    IF StartsWithAt(s, i, UserTag) THEN UserTag
    ELSE IF StartsWithAt(s, i, AITag) THEN AITag
    ELSE <<>>

\* `$` without re.MULTILINE: at the end, or just before a newline that ends the string
DollarAt(s, j) == j = Len(s) + 1 \/ (j = Len(s) /\ s[j] = "\n")

\* (?=(User:|AI:|$)) at position j
LookaheadAt(s, j) == TagAt(s, j) # <<>> \/ DollarAt(s, j)

\* LazyEnd with the quantifier greedy, (.*): it runs to the end of the string
GreedyEnd(s, i) == Len(s) + 1

\* (.*?) with re.DOTALL from position i: the lazy quantifier stops at the first
\* position where the lookahead succeeds (the end of the string always does)
LazyEnd(s, i) == CHOOSE j \in i..(Len(s) + 1) :
    /\ LookaheadAt(s, j)
    /\ \A k \in i..(j - 1) : ~LookaheadAt(s, k)

\* pattern.findall(content) from position i: the (speaker_tag, message) of each match
RECURSIVE FindAll(_, _)
FindAll(s, i) ==
    IF i > Len(s) THEN <<>>
    ELSE LET tag == TagAt(s, i)
         IN IF tag = <<>> THEN FindAll(s, i + 1)
            ELSE LET j == LazyEnd(s, i + Len(tag))
                 IN <<[speaker_tag |-> tag, message |-> SubSeq(s, i + Len(tag), j - 1)]>>
                        \o FindAll(s, j)

\* str.split(): the maximal runs of non-whitespace characters
RECURSIVE SplitFrom(_, _, _)
SplitFrom(s, i, word) ==
    IF i > Len(s) THEN (IF word = <<>> THEN <<>> ELSE <<word>>)
    ELSE IF s[i] \in Whitespace
         THEN (IF word = <<>> THEN <<>> ELSE <<word>>) \o SplitFrom(s, i + 1, <<>>)
         ELSE SplitFrom(s, i + 1, Append(word, s[i]))

Split(s) == SplitFrom(s, 1, <<>>)

\* ' '.join(message.strip().split())
Clean(message) == Join(<<" ">>, Split(message))

\* speaker_tag.rstrip(':')
Speaker(tag) == IF tag = UserTag THEN "User" ELSE "AI"

RECURSIVE AppendMatches(_, _)
AppendMatches(data, matches) ==
    IF matches = <<>> THEN data
    ELSE LET m == Head(matches)
             cleaned == Clean(m.message)
             speaker == Speaker(m.speaker_tag)
         IN AppendMatches(
                IF cleaned # <<>>
                THEN [data EXCEPT ![speaker] = Append(@, cleaned)]
                ELSE data,
                Tail(matches))

parse_chat_log(text) == AppendMatches([User |-> <<>>, AI |-> <<>>], FindAll(text, 1))

(***************************************************************************)
(* message_statistics                                                      *)
(***************************************************************************)
message_statistics(data) ==
    LET user_count == Len(data.User)
        ai_count == Len(data.AI)
    IN [total |-> user_count + ai_count, user |-> user_count, ai |-> ai_count]

(***************************************************************************)
(* extract_keywords_and_topic: the two vectorizers, each fitted on the one *)
(* document full_text.                                                     *)
(***************************************************************************)
\* STOP_WORDS = stopwords.words('english'): the entries of the NLTK list the model's
\* texts can contain
STOP_WORDS == { <<"t","h","e">>, <<"i","s">> }

\* \w of a Python 3 str pattern, over the model's characters
IsWordChar(c) == c \in Letters \cup Digits \cup {"_"}

\* WordBoundaryAt taking \b for the edge of a run of letters
LetterBoundaryAt(s, i) ==
    LET before == i > 1 /\ s[i - 1] \in Letters
        after == i <= Len(s) /\ s[i] \in Letters
    IN before # after

\* \b at position i: exactly one of s[i-1], s[i] is a word character
WordBoundaryAt(s, i) ==
    LET before == i > 1 /\ IsWordChar(s[i - 1])
        after == i <= Len(s) /\ IsWordChar(s[i])
    IN before # after

\* the characters [a-zA-Z] can take from position i
RECURSIVE LetterRun(_, _)
LetterRun(s, i) == IF i <= Len(s) /\ s[i] \in Letters THEN 1 + LetterRun(s, i + 1) ELSE 0

\* \b[a-zA-Z]{2,}\b tried at position i: the length matched (the greedy quantifier
\* gives back characters until the closing \b holds), or 0
TokenLenAt(s, i) ==
    IF ~WordBoundaryAt(s, i) THEN 0
    ELSE LET ok == {n \in 2..LetterRun(s, i) : WordBoundaryAt(s, i + n)}
         IN IF ok = {} THEN 0 ELSE CHOOSE n \in ok : \A m \in ok : m <= n

\* token_pattern.findall(doc) from position i
RECURSIVE Tokenize(_, _)
Tokenize(s, i) ==
    IF i > Len(s) THEN <<>>
    ELSE LET n == TokenLenAt(s, i)
         IN IF n = 0 THEN Tokenize(s, i + 1)
            ELSE <<SubSeq(s, i, i + n - 1)>> \o Tokenize(s, i + n)

\* [w for w in tokens if w not in stop_words]
RemoveStopWords(tokens) == SelectSeq(tokens, LAMBDA w : w \notin STOP_WORDS)

\* the vectorizers' analyzer up to the n-gram step: lowercase, tokenize, drop stop words
Analyze(doc) == RemoveStopWords(Tokenize(Lower(doc), 1))

\* _word_ngrams with ngram_range=(2, 2): " ".join(tokens[i:i+2]) for each i
WordBigrams(tokens) ==
    [i \in 1..(IF Len(tokens) < 2 THEN 0 ELSE Len(tokens) - 1) |->
        tokens[i] \o <<" ">> \o tokens[i + 1]]

\* the count of feature f in the document (the one row of the term matrix)
Count(f, feats) == Cardinality({i \in 1..Len(feats) : feats[i] = f})

\* _limit_features with max_features=limit: when more than `limit` terms exist, keep
\* the first `limit` of (-tfs).argsort().  argsort's default sort is not stable, so
\* among terms of equal count any may be the ones kept.
LimitFeatures(feats, limit) ==
    LET vocabulary == Range(feats)
    IN IF Cardinality(vocabulary) <= limit THEN {vocabulary}
       ELSE {kept \in SUBSET vocabulary :
                /\ Cardinality(kept) = limit
                /\ \A a \in kept : \A b \in vocabulary \ kept :
                       Count(a, feats) >= Count(b, feats)}

\* ArgMax returning the last position holding the maximum
ArgMaxLast(counts) == CHOOSE i \in 1..Len(counts) :
    /\ \A j \in 1..Len(counts) : counts[j] <= counts[i]
    /\ \A j \in (i + 1)..Len(counts) : counts[j] < counts[i]

\* counts.argmax(): the first position holding the maximum
ArgMax(counts) == CHOOSE i \in 1..Len(counts) :
    /\ \A j \in 1..Len(counts) : counts[j] <= counts[i]
    /\ \A j \in 1..(i - 1) : counts[j] < counts[i]

RECURSIVE Sum(_)
Sum(counts) == IF counts = <<>> THEN 0 ELSE Head(counts) + Sum(Tail(counts))

Returned(kws, main_topic, toks) ==
    [raised |-> "", keywords |-> kws, topic |-> main_topic, tokens |-> toks]

\* _count_vocab: ValueError("empty vocabulary; perhaps the documents only contain
\* stop words") leaves the call
Raised(toks) == [raised |-> "ValueError", keywords |-> <<>>, topic |-> <<>>, tokens |-> toks]

\* lines 67-84: the most frequent bigram, or the fallback
MainTopic(unigrams, keywords) ==
    LET bigrams == WordBigrams(unigrams)
        bigram_features == Sorted(Range(bigrams))
        bigram_counts == [i \in 1..Len(bigram_features) |-> Count(bigram_features[i], bigrams)]
    IN IF Sum(bigram_counts) > 0
       THEN bigram_features[ArgMax(bigram_counts)]
       ELSE IF keywords # <<>> THEN keywords[1] ELSE <<>>

\* extract_keywords_and_topic without the `if not texts` guard of lines 51-52: the
\* empty document has an empty vocabulary
ExtractWithoutEmptyGuard(txts, k) ==
    LET full_text == Join(<<" ">>, txts)
        toks == Tokenize(Lower(full_text), 1)
        unigrams == Analyze(full_text)
    IN IF unigrams = <<>> THEN {Raised(toks)}
       ELSE IF WordBigrams(unigrams) = <<>> THEN {Raised(toks)}
       ELSE {Returned(Sorted(kept), MainTopic(unigrams, Sorted(kept)), toks) :
                kept \in LimitFeatures(unigrams, k)}

\* every way the call extract_keywords_and_topic(txts, k) can end.  `tokens` records
\* what the token pattern found in the lowercased full_text.
extract_keywords_and_topic(txts, k) ==
    IF txts = <<>> THEN {Returned(<<>>, <<>>, <<>>)}
    ELSE LET full_text == Join(<<" ">>, txts)
             toks == Tokenize(Lower(full_text), 1)
             unigrams == Analyze(full_text)
         IN IF unigrams = <<>> THEN {Raised(toks)}                  \* tfidf.fit
            ELSE IF WordBigrams(unigrams) = <<>> THEN {Raised(toks)}  \* cv.fit_transform
            ELSE {Returned(Sorted(kept), MainTopic(unigrams, Sorted(kept)), toks) :
                     kept \in LimitFeatures(unigrams, k)}

(***************************************************************************)
(* generate_summary                                                        *)
(***************************************************************************)
\* Combined with the two lists the other way round
CombinedAIFirst(data) == data.AI \o data.User

\* combined = chat_data.get('User', []) + chat_data.get('AI', [])
Combined(data) == data.User \o data.AI

\* the four summary_lines joined by newlines
SummaryText(total, topic, keywords) ==
    "Summary:"
    \o "\n" \o "- The conversation had " \o IntStr(total) \o " exchanges."
    \o "\n" \o "- The user asked mainly about " \o Str(topic) \o "."
    \o "\n" \o "- Most common keywords: " \o Str(Join(<<",", " ">>, keywords)) \o "."

\* every way generate_summary(data) can end: the extraction's outcome and, when it
\* returned, the summary
generate_summary(data) ==
    LET total == message_statistics(data).total
    IN {[extraction |-> r,
         summary |-> IF r.raised = "" THEN SummaryText(total, r.topic, r.keywords) ELSE ""] :
            r \in extract_keywords_and_topic(Combined(data), 5)}

(***************************************************************************)
(* summarize_all_chats                                                     *)
(***************************************************************************)
TxtSuffix == <<".","t","x","t">>

\* f.lower().endswith('.txt')
IsTxt(f) == Len(f) >= 4 /\ SubSeq(Lower(f), Len(f) - 3, Len(f)) = TxtSuffix

\* sorted(f for f in os.listdir(folder_path) if f.lower().endswith('.txt'))
TxtFiles(entries) == Sorted({f \in DOMAIN entries : IsTxt(f)})

\* f"\nSummary for '{filename}':\n{summary}"
Section(filename, text) == "\n" \o "Summary for '" \o Str(filename) \o "':" \o "\n" \o text

\* '\n'.join(output)
RECURSIVE JoinLines(_)
JoinLines(parts) ==
    IF parts = <<>> THEN ""
    ELSE IF Len(parts) = 1 THEN parts[1]
    ELSE parts[1] \o "\n" \o JoinLines(Tail(parts))

NotADirectory(path) == "Error: '" \o path \o "' is not a valid directory."

NoTxtFiles(path) == "No .txt chat log files found in '" \o path \o "'."

(***************************************************************************)
(* Inputs.                                                                 *)
(***************************************************************************)
\* what a transcript is made of: the two markers, words, a stop word, a single
\* letter (also the first letter of a marker) and whitespace
Pieces == { UserTag, AITag, <<"a","b">>, <<"c","d">>, <<"t","h","e">>,
            <<"A">>, <<" ">>, <<"\n">> }

RECURSIVE Transcripts(_)
Transcripts(n) ==
    IF n = 0 THEN {<<>>}
    ELSE LET shorter == Transcripts(n - 1)
         IN shorter \cup {t \o p : t \in shorter, p \in Pieces}

\* the texts handed to extract_keywords_and_topic directly: words, an upper-case
\* word, a stop word, letters next to a digit, to an underscore and to punctuation
Utterances == { <<"a","b">>, <<"C","d">>, <<"t","h","e">>, <<"a","b","1">>,
                <<"_","e","f">>, <<"e","f",".","x">> }

RECURSIVE TextLists(_)
TextLists(n) ==
    IF n = 0 THEN {<<>>}
    ELSE LET shorter == TextLists(n - 1)
         IN shorter \cup {Append(t, u) : t \in shorter, u \in Utterances}

EntryNames == { <<"a",".","t","x","t">>, <<"b",".","t","x","t">>,
                <<"B",".","T","X","T">>, <<"c",".","m","d">> }

FileContents == { <<>>,
                  UserTag \o <<"a","b"," ","c","d"," ">> \o AITag \o <<"a","b">>,
                  UserTag \o <<" ","a","b","\n">> }

Folders == { [path |-> "./chat_logs", isdir |-> d, entries |-> e] :
                d \in BOOLEAN,
                e \in UNION { [names -> FileContents] : names \in SUBSET EntryNames } }

NoResult == [raised |-> "", keywords |-> <<>>, topic |-> <<>>, tokens |-> <<>>]

NoData == [User |-> <<>>, AI |-> <<>>]

NoFolder == [path |-> "", isdir |-> FALSE, entries |-> <<>>]

(***************************************************************************)
(* One transcript: parse_chat_log, then generate_summary.                  *)
(***************************************************************************)
Init ==
    /\ pc = "start"
    /\ content \in Transcripts(MaxPieces)
    /\ chat_data = NoData
    /\ texts = <<>>
    /\ top_k = 5
    /\ result = NoResult
    /\ summary = ""
    /\ folder = NoFolder
    /\ files = <<>>
    /\ idx = 0
    /\ output = <<>>

Parse ==
    /\ pc = "start"
    /\ chat_data' = parse_chat_log(content)
    /\ pc' = "parsed"
    /\ UNCHANGED <<content, texts, top_k, result, summary, folder, files, idx, output>>

Summarize ==
    /\ pc = "parsed"
    /\ \E o \in generate_summary(chat_data) :
        /\ texts' = Combined(chat_data)
        /\ result' = o.extraction
        /\ summary' = o.summary
        /\ pc' = IF o.extraction.raised = "" THEN "done" ELSE "raised"
    /\ UNCHANGED <<content, chat_data, top_k, folder, files, idx, output>>

Next == Parse \/ Summarize

Spec == Init /\ [][Next]_vars

(***************************************************************************)
(* extract_keywords_and_topic called on its own.                           *)
(***************************************************************************)
InitExtract ==
    /\ pc = "call"
    /\ texts \in TextLists(MaxTexts)
    /\ top_k \in 1..MaxK
    /\ content = <<>>
    /\ chat_data = NoData
    /\ result = NoResult
    /\ summary = ""
    /\ folder = NoFolder
    /\ files = <<>>
    /\ idx = 0
    /\ output = <<>>

Extract ==
    /\ pc = "call"
    /\ \E r \in extract_keywords_and_topic(texts, top_k) :
        /\ result' = r
        /\ pc' = IF r.raised = "" THEN "returned" ELSE "raised"
    /\ UNCHANGED <<content, chat_data, texts, top_k, summary, folder, files, idx, output>>

NextExtract == Extract

SpecExtract == InitExtract /\ [][NextExtract]_vars

(***************************************************************************)
(* summarize_all_chats over a directory.                                   *)
(***************************************************************************)
InitBatch ==
    /\ pc = "batch"
    /\ folder \in Folders
    /\ files = <<>>
    /\ idx = 0
    /\ output = <<>>
    /\ summary = ""
    /\ content = <<>>
    /\ chat_data = NoData
    /\ texts = <<>>
    /\ top_k = 5
    /\ result = NoResult

\* lines 110-118: the two early returns, or the sorted list and the empty output
ListFiles ==
    /\ pc = "batch"
    /\ IF ~folder.isdir
       THEN /\ summary' = NotADirectory(folder.path)
            /\ pc' = "batch_done"
            /\ files' = files
       ELSE /\ files' = TxtFiles(folder.entries)
            /\ IF files' = <<>>
               THEN summary' = NoTxtFiles(folder.path) /\ pc' = "batch_done"
               ELSE summary' = summary /\ pc' = "loop"
    /\ UNCHANGED <<content, chat_data, texts, top_k, result, folder, idx, output>>

\* lines 119-123: one iteration of the loop; an exception in it leaves the call
ProcessFile ==
    /\ pc = "loop"
    /\ idx < Len(files)
    /\ LET filename == files[idx + 1]
           data == parse_chat_log(folder.entries[filename])
       IN /\ content' = folder.entries[filename]
          /\ chat_data' = data
          /\ texts' = Combined(data)
          /\ \E o \in generate_summary(data) :
                /\ result' = o.extraction
                /\ IF o.extraction.raised = ""
                   THEN /\ output' = Append(output, Section(filename, o.summary))
                        /\ idx' = idx + 1
                        /\ pc' = "loop"
                   ELSE /\ output' = output
                        /\ idx' = idx
                        /\ pc' = "batch_raised"
    /\ UNCHANGED <<top_k, summary, folder, files>>

\* line 125
ReturnOutput ==
    /\ pc = "loop"
    /\ idx = Len(files)
    /\ summary' = JoinLines(output)
    /\ pc' = "batch_done"
    /\ UNCHANGED <<content, chat_data, texts, top_k, result, folder, files, idx, output>>

NextBatch == ListFiles \/ ProcessFile \/ ReturnOutput

SpecBatch == InitBatch /\ [][NextBatch]_vars

(***************************************************************************)
(* Reference definitions the claims are stated with.                       *)
(***************************************************************************)
\* the linear scan: every position where a literal marker starts
MarkerPositions(s) ==
    {i \in 1..Len(s) : StartsWithAt(s, i, UserTag) \/ StartsWithAt(s, i, AITag)}

\* the block of the marker at p: its speaker, and the text from the end of the marker
\* up to the next marker (or the end of the text), whitespace-normalized
ScanBlock(s, p) ==
    LET later == {q \in MarkerPositions(s) : q > p}
        stop == IF later = {} THEN Len(s) + 1
                ELSE CHOOSE q \in later : \A r \in later : q <= r
        isUser == StartsWithAt(s, p, UserTag)
        from == p + (IF isUser THEN 5 ELSE 3)
        body == SubSeq(s, from, stop - 1)
        solid == SelectSeq([i \in 1..Len(body) |-> i], LAMBDA i : body[i] \notin Whitespace)
        \* keep the non-whitespace characters, with one space wherever whitespace
        \* separated two of them
        normal == [k \in 1..Len(solid) |->
                     IF k > 1 /\ solid[k] > solid[k - 1] + 1
                     THEN <<" ", body[solid[k]]>> ELSE <<body[solid[k]]>>]
    IN [speaker |-> IF isUser THEN "User" ELSE "AI", text |-> Join(<<>>, normal)]

\* the utterances of the scan, in the order of their blocks, empty ones dropped
RECURSIVE ScanFrom(_, _)
ScanFrom(s, ps) ==
    IF ps = {} THEN <<>>
    ELSE LET p == CHOOSE q \in ps : \A r \in ps : q <= r
             b == ScanBlock(s, p)
         IN (IF b.text = <<>> THEN <<>> ELSE <<b>>) \o ScanFrom(s, ps \ {p})

ScanUtterances(s) == ScanFrom(s, MarkerPositions(s))

TextsOf(us) == [i \in 1..Len(us) |-> us[i].text]

OfSpeaker(us, who) == TextsOf(SelectSeq(us, LAMBDA u : u.speaker = who))

\* the stopword-filtered token stream of the texts handed to the extraction
Stream == Analyze(Join(<<" ">>, texts))

\* the two-word windows of a token stream
Windows(stream) == {stream[i] \o <<" ">> \o stream[i + 1] : i \in 1..(Len(stream) - 1)}

WindowCount(w, stream) ==
    Cardinality({i \in 1..(Len(stream) - 1) : stream[i] \o <<" ">> \o stream[i + 1] = w})

TermCount(t) == Cardinality({i \in 1..Len(Stream) : Stream[i] = t})

\* the maximal runs of characters of the class `cls` in s, in order
RECURSIVE RunsFrom(_, _, _)
RunsFrom(s, cls, starts) ==
    IF starts = {} THEN <<>>
    ELSE LET i == CHOOSE a \in starts : \A b \in starts : a <= b
             j == CHOOSE e \in i..Len(s) :
                    /\ \A k \in i..e : s[k] \in cls
                    /\ (e = Len(s) \/ s[e + 1] \notin cls)
         IN <<SubSeq(s, i, j)>> \o RunsFrom(s, cls, starts \ {i})

Runs(s, cls) ==
    RunsFrom(s, cls, {i \in 1..Len(s) : s[i] \in cls /\ (i = 1 \/ s[i - 1] \notin cls)})

AllLetters(run) == \A k \in 1..Len(run) : run[k] \in Letters

\* the lowercased text the token pattern is applied to
FullTextLower == Lower(Join(<<" ">>, texts))

(***************************************************************************)
(* Claims about extract_keywords_and_topic, under SpecExtract.             *)
(***************************************************************************)
\* C1: for a non-empty text list and K >= 1 the returned keyword list is ordered by
\* descending term frequency, terms of equal frequency in ascending lexical order.
C1_KeywordsByDescendingFrequency ==
    (pc = "returned" /\ texts # <<>>) =>
        \A i, j \in 1..Len(result.keywords) :
            i < j =>
                /\ TermCount(result.keywords[i]) >= TermCount(result.keywords[j])
                /\ TermCount(result.keywords[i]) = TermCount(result.keywords[j])
                       => StrLess(result.keywords[i], result.keywords[j])

\* C2: when the filtered token stream has fewer than two tokens the call returns
\* normally, the topic being the first keyword or the empty string; with exactly one
\* surviving token t it returns keywords=[t], topic=t.
C2_FallbackTopic ==
    (pc \in {"returned", "raised"} /\ Len(Stream) < 2) =>
        /\ pc = "returned"
        /\ result.topic = (IF result.keywords # <<>> THEN result.keywords[1] ELSE <<>>)
        /\ Len(Stream) = 1 => (result.keywords = <<Stream[1]>> /\ result.topic = Stream[1])

\* C5: when the filtered token stream has at least two tokens, the topic is a window
\* of two consecutive surviving tokens whose count is maximal, and the lexically
\* smallest of the windows with that count.
C5_TopicIsMostFrequentWindow ==
    (pc \in {"returned", "raised"} /\ Len(Stream) >= 2) =>
        /\ pc = "returned"
        /\ result.topic \in Windows(Stream)
        /\ \A w \in Windows(Stream) :
            /\ WindowCount(w, Stream) <= WindowCount(result.topic, Stream)
            /\ (WindowCount(w, Stream) = WindowCount(result.topic, Stream) /\ w # result.topic)
                   => StrLess(result.topic, w)

\* a strictly dominant window that is not the lexically smallest one was returned
C5_Witness ==
    /\ pc = "returned"
    /\ \E w \in Windows(Stream) :
        /\ StrLess(w, result.topic)
        /\ WindowCount(w, Stream) < WindowCount(result.topic, Stream)

\* C6: for every text list and top_k the keyword list has at most top_k elements,
\* pairwise distinct, none a stop word, none shorter than two letters; when fewer
\* than top_k distinct qualifying tokens exist, all of them are returned.
C6_KeywordListBounds ==
    pc \in {"returned", "raised"} =>
        /\ pc = "returned" =>
            /\ Len(result.keywords) <= top_k
            /\ \A i, j \in 1..Len(result.keywords) :
                   i # j => result.keywords[i] # result.keywords[j]
            /\ \A i \in 1..Len(result.keywords) :
                /\ result.keywords[i] \notin STOP_WORDS
                /\ Len(result.keywords[i]) >= 2
                /\ AllLetters(result.keywords[i])
        /\ Cardinality(Range(Stream)) < top_k =>
            /\ pc = "returned"
            /\ Range(result.keywords) = Range(Stream)

\* C10 as stated: the tokens are exactly the maximal runs of letters of length >= 2
\* of the lowercased text, every other character (digits and underscores included)
\* being a boundary, so that `ab1` contributes `ab`.
C10_TokensAreLetterRuns ==
    pc \in {"returned", "raised"} =>
        result.tokens = SelectSeq(Runs(FullTextLower, Letters), LAMBDA r : Len(r) >= 2)

\* C10 as amended: the tokens are exactly the maximal runs of word characters
\* (letters, digits, underscore) of the lowercased text that consist of letters only
\* and are at least two long; a run of letters touching a digit or an underscore
\* contributes no token.
C10_TokensAreLetterOnlyWords ==
    pc \in {"returned", "raised"} =>
        result.tokens = SelectSeq(Runs(FullTextLower, Letters \cup Digits \cup {"_"}),
                                  LAMBDA r : Len(r) >= 2 /\ AllLetters(r))

\* a returned call whose text holds a run of letters next to a digit or underscore
C10_Witness ==
    /\ pc = "returned"
    /\ result.tokens # SelectSeq(Runs(FullTextLower, Letters), LAMBDA r : Len(r) >= 2)

(***************************************************************************)
(* Claims about one transcript, under Spec.                                *)
(***************************************************************************)
\* C3: a transcript with at least one utterance whose combined text holds only stop
\* words or disqualified tokens gives an empty keyword list and a summary string;
\* no error is raised.
C3_DegenerateTextSummarized ==
    (pc \in {"done", "raised"}
        /\ ScanUtterances(content) # <<>>
        /\ Analyze(Join(<<" ">>, TextsOf(ScanUtterances(content)))) = <<>>) =>
            /\ pc = "done"
            /\ result.keywords = <<>>
            /\ summary # ""

\* C4 as stated: the combined text handed to the extraction is the utterances in
\* their segmented order, User and AI interleaved as they occurred, and the topic's
\* windows are adjacent surviving tokens of the transcript in that order.
C4_CombinedInSegmentedOrder ==
    pc \in {"done", "raised"} =>
        /\ texts = TextsOf(ScanUtterances(content))
        /\ (pc = "done" /\ texts # <<>>) =>
               result.topic \in
                   Windows(Analyze(Join(<<" ">>, TextsOf(ScanUtterances(content)))))

\* C4 as amended: the combined text is all User utterances in their original
\* relative order followed by all AI utterances in theirs, and the topic is a window
\* of adjacent surviving tokens of that concatenation.
C4_CombinedUserThenAI ==
    pc \in {"done", "raised"} =>
        LET us == ScanUtterances(content)
            grouped == OfSpeaker(us, "User") \o OfSpeaker(us, "AI")
        IN /\ texts = grouped
           /\ (pc = "done" /\ grouped # <<>>) =>
                  result.topic \in Windows(Analyze(Join(<<" ">>, grouped)))

\* a summarized transcript whose AI block precedes a User block: the topic is no
\* window of the transcript read in its original order
C4_Witness ==
    /\ pc = "done"
    /\ texts # TextsOf(ScanUtterances(content))
    /\ result.topic \notin Windows(Analyze(Join(<<" ">>, TextsOf(ScanUtterances(content)))))

\* C7: the regex segmentation equals the linear scan over marker positions: text
\* before the first marker is discarded, each block goes to its marker's speaker,
\* bodies are whitespace-normalized, empty bodies are dropped (no utterance is
\* empty; no marker, no utterance), and each speaker's utterances keep their order.
C7_RegexEqualsScan ==
    pc # "start" =>
        LET us == ScanUtterances(content)
        IN /\ chat_data.User = OfSpeaker(us, "User")
           /\ chat_data.AI = OfSpeaker(us, "AI")
           /\ \A i \in 1..Len(chat_data.User) : chat_data.User[i] # <<>>
           /\ \A i \in 1..Len(chat_data.AI) : chat_data.AI[i] # <<>>
           /\ MarkerPositions(content) = {} => chat_data = NoData

\* a parsed transcript with an utterance of each speaker, the AI's block first
C7_Witness ==
    /\ pc = "parsed"
    /\ StartsWithAt(content, 1, AITag)
    /\ chat_data.User # <<>>
    /\ chat_data.AI # <<>>

\* C9: a transcript that yields no utterances (the empty one among them) gives
\* total=0, no keywords, no topic and, without raising, the four-line summary.
C9_EmptyTranscriptSummary ==
    (pc \in {"done", "raised"} /\ ScanUtterances(content) = <<>>) =>
        /\ pc = "done"
        /\ message_statistics(chat_data).total = 0
        /\ result.keywords = <<>>
        /\ result.topic = <<>>
        /\ summary = "Summary:\n- The conversation had 0 exchanges.\n- The user asked mainly about .\n- Most common keywords: ."

\* the empty transcript, summarized
C9_Witness == pc = "done" /\ content = <<>> /\ summary # ""

(***************************************************************************)
(* Claim about summarize_all_chats, under SpecBatch.                       *)
(***************************************************************************)
\* C8: for a valid directory with at least one entry ending in .txt (in any case),
\* exactly those entries are processed, each once, in ascending lexical order, and
\* the output is their sections in that order joined by single newlines.
C8_BatchSectionsInOrder ==
    LET expected == Sorted({f \in DOMAIN folder.entries : IsTxt(f)})
    IN (pc \in {"batch_done", "batch_raised"} /\ folder.isdir /\ expected # <<>>) =>
        /\ pc = "batch_done"
        /\ Len(output) = Len(expected)
        /\ \A i \in 1..Len(expected) :
               \E o \in generate_summary(parse_chat_log(folder.entries[expected[i]])) :
                   /\ o.extraction.raised = ""
                   /\ output[i] = Section(expected[i], o.summary)
        /\ summary = JoinLines(output)

====
